---- MODULE Spec2Model ----
(***************************************************************************)
(* Model of the invoice editor (InvoiceModal) of                           *)
(* src/src/components/DatabaseManager.tsx: the line-item form state, the   *)
(* editing handlers, validation, and the sequential remote writes of       *)
(* handleSubmit against the remote store (invoices, invoice items,         *)
(* inventory stock).                                                       *)
(*                                                                         *)
(* Strings of the form are modelled as strings; "" is the empty string     *)
(* (falsy in the source).  Money is modelled in integer units.  Line ids   *)
(* are modelled by the number they print: '1' is 1 and                     *)
(* Date.now().toString() is the clock value, which is always > 1.          *)
(***************************************************************************)
EXTENDS Integers, Sequences, FiniteSets, TLC

\* ---------------------------------------------------------------- bounds
\* Most lines the form is allowed to grow to.
MaxLines == 3
\* Largest clock value (the clock starts at 2).
MaxClock == 3
\* Number of form edits explored over a behaviour.
MaxEdits == 4
\* Number of submissions that get past validation over a behaviour.
MaxSubmits == 2

\* ------------------------------------------------------------ environment
\* The inventory catalogue: identity, name, unit price; stock at start.
InvIds == {"a", "b"}
InvName == [a |-> "Steel Beam", b |-> "Rebar"]
InvPrice == [a |-> 100, b |-> 250]
InitStock == [a |-> 5, b |-> 1]
\* The one client that can be selected.
ClientIds == {"c1"}
ClientName == [c1 |-> "Acme Ltd"]
\* Values the user types into the quantity, unit price and description
\* inputs.  The quantity input passes parseInt(v) || 1, so never 0.
QtyInputs == {-1, 3, 10}
PriceInputs == {0, 150}
DescInputs == {"", "Custom"}
\* Text the user types into a line's inventory search input.
InvSearchInputs == {"", "Re"}

VARIABLES
    isOpen,         \* prop isOpen of InvoiceModal
    invoice,        \* prop invoice: 0 = undefined, else the invoice's id
    formData,       \* useState formData (client_id, notes, status)
    items,          \* useState items: sequence of line-item drafts
    clientSearch,   \* useState clientSearch: text of the client search input
    inventorySearches, \* useState inventorySearches: the non-empty search
                    \* texts, by line id (a missing key and '' read alike)
    inventory,      \* useInventory data: the editor's view of the stock
    now,            \* Date.now()
    edits,          \* number of form edits so far
    toasts,         \* notifications raised by the last handler step
    stock,          \* remote store: inventory.quantity per item
    invoices,       \* remote store: invoices, index = identity
    invoice_items,  \* remote store: invoice_items rows, in insertion order
    subs,           \* the handleSubmit calls that passed validation
    cell            \* record browser: the table cell rendered last

vars == <<isOpen, invoice, formData, items, clientSearch, inventorySearches,
          inventory, now, edits, toasts, stock, invoices, invoice_items, subs,
          cell>>

\* The state of the invoice editor and of the store.
editorVars ==
    <<isOpen, invoice, formData, items, clientSearch, inventorySearches,
      inventory, now, edits, toasts, stock, invoices, invoice_items, subs>>

\* No cell was rendered yet.
NoCell == [column |-> <<>>, value |-> "", rendered |-> "nothing"]

searchVars == <<clientSearch, inventorySearches>>

remoteVars == <<stock, invoices, invoice_items>>

\* ---------------------------------------------------------------- helpers
Min(a, b) == IF a < b THEN a ELSE b

\* { id: '1', inventory_id: '', description: '', quantity: 1, ... }
\* available_at_selection is a history field, not a field of the source's
\* InvoiceItem: the quantity the editor's inventory showed for the bound
\* item when the line was last bound (0 while it never was).
BlankItem(id) ==
    [id |-> id, inventory_id |-> "", description |-> "",
     quantity |-> 1, unit_price |-> 0, line_total |-> 0,
     available_at_selection |-> 0]

BlankForm == [client_id |-> "", notes |-> "", status |-> "draft"]

calculateItemTotal(quantity, unitPrice) == quantity * unitPrice

RECURSIVE SumLineTotals(_)
SumLineTotals(its) ==
    IF its = <<>> THEN 0
    ELSE its[1].line_total + SumLineTotals(Tail(its))

\* Mutant of calculateSubtotal: only the first line is counted.
calculateSubtotalFirstLineOnly(its) ==
    IF its = <<>> THEN 0 ELSE its[1].line_total

calculateSubtotal(its) == SumLineTotals(its)

\* Concatenation of a sequence of sequences.
RECURSIVE Flatten(_)
Flatten(ss) == IF ss = <<>> THEN <<>> ELSE ss[1] \o Flatten(Tail(ss))

\* items.filter(pred), as the subsequence of the kept lines.
RECURSIVE FilterOutId(_, _)
FilterOutId(its, id) ==
    IF its = <<>> THEN <<>>
    ELSE IF its[1].id # id THEN <<its[1]>> \o FilterOutId(Tail(its), id)
    ELSE FilterOutId(Tail(its), id)

InsufficientToast(inv) ==
    [title |-> "Insufficient Inventory", units |-> inventory[inv],
     name |-> InvName[inv], variant |-> "destructive"]

ErrorToast(text) ==
    [title |-> "Error", description |-> text, variant |-> "destructive"]

SuccessToast(text) == [title |-> "Success", description |-> text]

\* -------------------------------------------------------- editing handlers
\* The quantity check of handleItemChange: the requested quantity exceeds
\* the bound item's quantity in the editor's inventory.
ExceedsInventory(item, newQuantity) ==
    /\ item.inventory_id # ""
    /\ item.inventory_id \in DOMAIN inventory
    /\ newQuantity > inventory[item.inventory_id]

\* Mutant of UpdatedItem: the requested quantity is kept even when it
\* exceeds the inventory.
UpdatedItemNoClamp(item, field, value) ==
    LET u0 == [item EXCEPT ![field] = value]
    IN  IF field \in {"quantity", "unit_price"}
        THEN [u0 EXCEPT !.line_total =
                  calculateItemTotal(u0.quantity, u0.unit_price)]
        ELSE u0

\* The updatedItem of handleItemChange for one matching line.
UpdatedItem(item, field, value) ==
    LET u0 == [item EXCEPT ![field] = value]
        u1 == IF field = "quantity"
              THEN [u0 EXCEPT !.quantity =
                        IF ExceedsInventory(u0, value)
                        THEN inventory[u0.inventory_id]
                        ELSE value]
              ELSE u0
    IN  IF field \in {"quantity", "unit_price"}
        THEN [u1 EXCEPT !.line_total =
                  calculateItemTotal(u1.quantity,
                      IF field = "unit_price" THEN value ELSE u1.unit_price)]
        ELSE u1

\* The toasts handleItemChange raises while mapping over the lines.
ItemChangeToasts(id, field, value) ==
    Flatten([i \in 1..Len(items) |->
        IF items[i].id = id /\ field = "quantity"
           /\ ExceedsInventory(items[i], value)
        THEN <<InsufficientToast(items[i].inventory_id)>>
        ELSE <<>>])

handleItemChange(id, field, value) ==
    /\ isOpen /\ invoice = 0
    /\ UNCHANGED searchVars
    /\ UNCHANGED cell
    /\ edits < MaxEdits
    /\ items' = [i \in 1..Len(items) |->
                    IF items[i].id = id
                    THEN UpdatedItem(items[i], field, value)
                    ELSE items[i]]
    /\ toasts' = ItemChangeToasts(id, field, value)
    /\ edits' = edits + 1
    /\ UNCHANGED <<isOpen, invoice, formData, inventory, now,
                   stock, invoices, invoice_items, subs>>

EditQuantity ==
    \E i \in 1..Len(items), v \in QtyInputs :
        handleItemChange(items[i].id, "quantity", v)

EditUnitPrice ==
    \E i \in 1..Len(items), v \in PriceInputs :
        handleItemChange(items[i].id, "unit_price", v)

EditDescription ==
    \E i \in 1..Len(items), v \in DescInputs :
        handleItemChange(items[i].id, "description", v)

\* Mutant of SelectedItem: the line's quantity is kept as it is.
SelectedItemKeepsQuantity(item, inventoryItemId) ==
    [item EXCEPT
        !.inventory_id = inventoryItemId,
        !.description = InvName[inventoryItemId],
        !.unit_price = InvPrice[inventoryItemId],
        !.line_total =
            calculateItemTotal(item.quantity, InvPrice[inventoryItemId]),
        !.available_at_selection = inventory[inventoryItemId]]

\* The line handleInventorySelect produces for a matching line.
SelectedItem(item, inventoryItemId) ==
    LET validQuantity == Min(item.quantity, inventory[inventoryItemId])
    IN  [item EXCEPT
            !.inventory_id = inventoryItemId,
            !.description = InvName[inventoryItemId],
            !.unit_price = InvPrice[inventoryItemId],
            !.quantity = validQuantity,
            !.line_total =
                calculateItemTotal(validQuantity, InvPrice[inventoryItemId]),
            !.available_at_selection = inventory[inventoryItemId]]

\* inventorySearches[id] || '': the search text of a line.
SearchOf(id) ==
    IF id \in DOMAIN inventorySearches THEN inventorySearches[id] ELSE ""

\* The searches with the text of one line cleared or deleted.
WithoutSearch(searches, id) ==
    [k \in DOMAIN searches \ {id} |-> searches[k]]

\* The searches with the text of one line set.
WithSearch(searches, id, text) ==
    IF text = "" THEN WithoutSearch(searches, id)
    ELSE [k \in DOMAIN searches \cup {id} |->
              IF k = id THEN text ELSE searches[k]]

\* The items whose name contains the search term, ignoring case:
\* "re" is in "rebar" and not in "steel beam".
NameIncludes == [Re |-> {"b"}]

getFilteredInventory(searchTerm) ==
    {inv \in InvIds : inventory[inv] > 0 /\ inv \in NameIncludes[searchTerm]}

\* The selection widgets are rendered for a line that is not shown as
\* selected, and offer the items with quantity > 0.
handleInventorySelect(itemId, inventoryItemId) ==
    /\ isOpen /\ invoice = 0
    /\ inventorySearches' = WithoutSearch(inventorySearches, itemId)
    /\ UNCHANGED clientSearch
    /\ UNCHANGED cell
    /\ edits < MaxEdits
    /\ inventoryItemId \in DOMAIN inventory
    /\ inventory[inventoryItemId] > 0
    /\ items' = [i \in 1..Len(items) |->
                    IF items[i].id = itemId
                    THEN SelectedItem(items[i], inventoryItemId)
                    ELSE items[i]]
    /\ toasts' = <<>>
    /\ edits' = edits + 1
    /\ UNCHANGED <<isOpen, invoice, formData, inventory, now,
                   stock, invoices, invoice_items, subs>>

\* The line is shown as selected: the search input and the fallback
\* Select are not rendered for it.
ShownSelected(item) == item.inventory_id # "" /\ item.description # ""

\* A click in the search result list of a line, or a choice in its fallback
\* Select (rendered while the line is unbound and has no search text).
SelectInventory ==
    \E i \in 1..Len(items), inv \in InvIds :
        /\ ~ShownSelected(items[i])
        /\ IF SearchOf(items[i].id) # ""
           THEN inv \in getFilteredInventory(SearchOf(items[i].id))
           ELSE items[i].inventory_id = ""
        /\ handleInventorySelect(items[i].id, inv)

\* onChange of a line's inventory search input.
TypeInventorySearch ==
    \E i \in 1..Len(items), text \in InvSearchInputs :
        /\ isOpen /\ invoice = 0
        /\ edits < MaxEdits
        /\ ~ShownSelected(items[i])
        /\ text # SearchOf(items[i].id)
        /\ inventorySearches' = WithSearch(inventorySearches, items[i].id, text)
        /\ UNCHANGED cell
        /\ toasts' = <<>>
        /\ edits' = edits + 1
        /\ UNCHANGED <<isOpen, invoice, formData, items, clientSearch,
                       inventory, now, stock, invoices, invoice_items, subs>>

\* Mutant of ChangedItem: the line total is not reset with the price.
ChangedItemKeepsTotal(item) ==
    [item EXCEPT !.inventory_id = "", !.description = "", !.unit_price = 0]

\* The line the Change Item button produces for a matching line.
ChangedItem(item) ==
    [item EXCEPT !.inventory_id = "", !.description = "",
                 !.unit_price = 0, !.line_total = 0]

\* onClick of the Change Item button, shown for a selected line.
ChangeItem ==
    \E i \in 1..Len(items) :
        /\ isOpen /\ invoice = 0
        /\ UNCHANGED searchVars
        /\ UNCHANGED cell
        /\ edits < MaxEdits
        /\ ShownSelected(items[i])
        /\ items' = [j \in 1..Len(items) |->
                        IF items[j].id = items[i].id
                        THEN ChangedItem(items[j])
                        ELSE items[j]]
        /\ toasts' = <<>>
        /\ edits' = edits + 1
        /\ UNCHANGED <<isOpen, invoice, formData, inventory, now,
                       stock, invoices, invoice_items, subs>>

\* The identifier addItem gives the new line: Date.now().toString().
NewItemId == now

addItem ==
    /\ isOpen /\ invoice = 0
    /\ UNCHANGED searchVars
    /\ UNCHANGED cell
    /\ Len(items) < MaxLines
    /\ edits < MaxEdits
    /\ items' = Append(items, BlankItem(NewItemId))
    /\ toasts' = <<>>
    /\ edits' = edits + 1
    /\ UNCHANGED <<isOpen, invoice, formData, inventory, now,
                   stock, invoices, invoice_items, subs>>

\* The lines removeItem leaves.
RemainingItems(its, id) ==
    IF Len(its) > 1 THEN FilterOutId(its, id) ELSE its

removeItem ==
    \E i \in 1..Len(items) :
        /\ isOpen /\ invoice = 0
        /\ edits < MaxEdits
        /\ items' = RemainingItems(items, items[i].id)
        /\ inventorySearches' =
               IF Len(items) > 1
               THEN WithoutSearch(inventorySearches, items[i].id)
               ELSE inventorySearches
        /\ UNCHANGED clientSearch
        /\ UNCHANGED cell
        /\ toasts' = <<>>
        /\ edits' = edits + 1
        /\ UNCHANGED <<isOpen, invoice, formData, inventory, now,
                       stock, invoices, invoice_items, subs>>

\* Choosing a client in the client Select / dropdown.
SelectClient ==
    \E c \in ClientIds :
        /\ isOpen
        /\ edits < MaxEdits
        /\ formData.client_id # c
        /\ formData' = [formData EXCEPT !.client_id = c]
        /\ clientSearch' = ClientName[c]
        /\ UNCHANGED inventorySearches
        /\ UNCHANGED cell
        /\ toasts' = <<>>
        /\ edits' = edits + 1
        /\ UNCHANGED <<isOpen, invoice, items, inventory, now,
                       stock, invoices, invoice_items, subs>>

\* The clock advances.
Tick ==
    /\ UNCHANGED searchVars
    /\ UNCHANGED cell
    /\ now < MaxClock
    /\ now' = now + 1
    /\ UNCHANGED <<isOpen, invoice, formData, items, inventory, edits,
                   toasts, stock, invoices, invoice_items, subs>>

\* ------------------------------------------------- opening and closing
\* The placeholder line the effect shows for an existing invoice.
PlaceholderItem(subtotal) ==
    [id |-> 1, inventory_id |-> "",
     description |-> "Steel fabrication services",
     quantity |-> 1, unit_price |-> subtotal, line_total |-> subtotal,
     available_at_selection |-> 0]

\* formData the effect loads from an existing invoice.
PrefilledForm(inv) ==
    [client_id |-> inv.client_id, notes |-> inv.notes, status |-> inv.status]

\* The parent opens the editor, with or without an invoice; the effect on
\* [invoice, isOpen] then loads or resets the form.
Open ==
    \E inv \in 0..Len(invoices) :
        /\ ~isOpen
        /\ isOpen' = TRUE
        /\ invoice' = inv
        /\ IF inv # 0
           THEN /\ formData' = PrefilledForm(invoices[inv])
                /\ items' = <<PlaceholderItem(invoices[inv].subtotal)>>
                /\ UNCHANGED inventorySearches
           ELSE /\ formData' = BlankForm
                /\ items' = <<BlankItem(1)>>
                /\ inventorySearches' = <<>>
        /\ UNCHANGED clientSearch
        /\ UNCHANGED cell
        /\ toasts' = <<>>
        /\ UNCHANGED <<inventory, now, edits, stock, invoices,
                       invoice_items, subs>>

\* The isOpen prop once the parent has handled onClose: the editor is
\* closed.
AfterOnClose == FALSE

\* Cancel button / dialog dismissal: onClose.
Cancel ==
    /\ isOpen
    /\ UNCHANGED searchVars
    /\ UNCHANGED cell
    /\ isOpen' = AfterOnClose
    /\ toasts' = <<>>
    /\ UNCHANGED <<invoice, formData, items, inventory, now, edits,
                   stock, invoices, invoice_items, subs>>

\* useInventory delivers the store's current quantities.
RefetchInventory ==
    /\ UNCHANGED searchVars
    /\ UNCHANGED cell
    /\ inventory # stock
    /\ inventory' = stock
    /\ UNCHANGED <<isOpen, invoice, formData, items, now, edits, toasts,
                   stock, invoices, invoice_items, subs>>

\* -------------------------------------------------------------- validation
\* Mutant of ItemIncomplete: the unit price is not tested.
ItemIncompleteNoPrice(item) ==
    \/ item.inventory_id = ""
    \/ item.description = ""
    \/ item.quantity <= 0

\* The first test of validateItems on one line.
ItemIncomplete(item) ==
    \/ item.inventory_id = ""
    \/ item.description = ""
    \/ item.quantity <= 0
    \/ item.unit_price <= 0

\* Mutant of ItemOverStock: availability is not tested.
ItemOverStockIgnored(item) == FALSE

\* The availability test of validateItems on one line.
ItemOverStock(item) ==
    /\ item.inventory_id \in DOMAIN inventory
    /\ item.quantity > inventory[item.inventory_id]

\* Index of the first line validateItems rejects, 0 if none.
FirstInvalid(its) ==
    LET bad == {i \in 1..Len(its) :
                    ItemIncomplete(its[i]) \/ ItemOverStock(its[i])}
    IN  IF bad = {} THEN 0
        ELSE CHOOSE i \in bad : \A j \in bad : i <= j

validateItems(its) == FirstInvalid(its) = 0

\* The toast validateItems itself raises before returning false.
ValidateToasts(its) ==
    LET i == FirstInvalid(its)
    IN  IF i # 0 /\ ~ItemIncomplete(its[i])
        THEN <<InsufficientToast(its[i].inventory_id)>>
        ELSE <<>>

\* ------------------------------------------------------------ handleSubmit
InvoiceData(form, its) ==
    [client_id |-> form.client_id, notes |-> form.notes,
     status |-> form.status,
     subtotal |-> calculateSubtotal(its),
     tax_amount |-> 0,
     total_amount |-> calculateSubtotal(its)]

\* One element of the invoiceItems payload.
InvoiceItemRow(invoiceId, item) ==
    [invoice_id |-> invoiceId, description |-> item.description,
     quantity |-> item.quantity, unit_price |-> item.unit_price,
     line_total |-> item.line_total]

InvoiceItemRows(invoiceId, its) ==
    [i \in 1..Len(its) |-> InvoiceItemRow(invoiceId, its[i])]

\* The test of the stock-reduction loop on one line.
NeedsDecrement(item) == item.inventory_id # "" /\ item.quantity > 0

\* Mutant of NextDecrement: the loop runs from the last line backwards.
NextDecrementLast(its, j) ==
    LET todo == {i \in j..Len(its) : NeedsDecrement(its[i])}
    IN  IF todo = {} THEN 0
        ELSE CHOOSE i \in todo : \A k \in todo : i >= k

\* Index of the first line at or after j the loop decrements, 0 if none.
NextDecrement(its, j) ==
    LET todo == {i \in j..Len(its) : NeedsDecrement(its[i])}
    IN  IF todo = {} THEN 0
        ELSE CHOOSE i \in todo : \A k \in todo : i <= k

\* disabled={createInvoice.isPending || updateInvoice.isPending}
SubmitDisabled ==
    \E k \in 1..Len(subs) : subs[k].pc \in {"createInvoice", "updateInvoice"}

InFlight == {"createInvoice", "createInvoiceItems",
             "updateInventoryQuantity", "updateInvoice"}

CreateInvoiceCall(data) == [op |-> "createInvoice", data |-> data]
UpdateInvoiceCall(id, data) ==
    [op |-> "updateInvoice", id |-> id, data |-> data]
CreateInvoiceItemsCall(rows) == [op |-> "createInvoiceItems", rows |-> rows]
UpdateInventoryQuantityCall(item) ==
    [op |-> "updateInventoryQuantity", inventoryId |-> item.inventory_id,
     quantityToReduce |-> item.quantity]

\* Mutant of SubmitCall: an invoice is created whatever was supplied.
SubmitCallAlwaysCreate(inv, data) == CreateInvoiceCall(data)

\* The first write of handleSubmit: the update of the invoice it was given,
\* or the creation of a new one.
SubmitCall(inv, data) ==
    IF inv # 0 THEN UpdateInvoiceCall(inv, data) ELSE CreateInvoiceCall(data)

\* Mutant of ClientMissing: the client is asked of new invoices only.
ClientMissingOnlyWhenNew(form) == invoice = 0 /\ form.client_id = ""

\* The first test of handleSubmit: !formData.client_id.
ClientMissing(form) == form.client_id = ""

\* The call of handleSubmit up to its first await (or its early return).
handleSubmit ==
    /\ isOpen
    /\ UNCHANGED searchVars
    /\ UNCHANGED cell
    /\ ~SubmitDisabled
    /\ IF ClientMissing(formData)
       THEN /\ toasts' = <<ErrorToast("Please select a client")>>
            /\ UNCHANGED subs
       ELSE IF invoice = 0 /\ ~validateItems(items)
       THEN /\ toasts' = ValidateToasts(items) \o
                <<ErrorToast("Please select inventory items for all line items")>>
            /\ UNCHANGED subs
       ELSE /\ Len(subs) < MaxSubmits
            /\ toasts' = <<>>
            /\ LET data == InvoiceData(formData, items)
               IN  subs' = Append(subs,
                     [invoice |-> invoice, items |-> items, data |-> data,
                      invoiceId |-> invoice, idx |-> 0,
                      pc |-> SubmitCall(invoice, data).op,
                      issued |-> <<SubmitCall(invoice, data)>>])
    /\ UNCHANGED <<isOpen, invoice, formData, items, inventory, now, edits,
                   stock, invoices, invoice_items>>

\* Mutant of Succeed: the success toast without onClose.
SucceedWithoutClose(k) ==
    /\ subs' = [subs EXCEPT ![k].pc = "done"]
    /\ toasts' = <<SuccessToast(IF subs[k].invoice # 0
                                THEN "Invoice updated successfully"
                                ELSE "Invoice created successfully")>>
    /\ UNCHANGED isOpen

\* The end of the try block: the success toast and onClose.
Succeed(k) ==
    /\ subs' = [subs EXCEPT ![k].pc = "done"]
    /\ toasts' = <<SuccessToast(IF subs[k].invoice # 0
                                THEN "Invoice updated successfully"
                                ELSE "Invoice created successfully")>>
    /\ isOpen' = AfterOnClose

\* Mutant of ClosureItems: the lines are read from the form as it is now.
ClosureItemsLive(k) == items

\* The `items` that call k of handleSubmit closed over: the lines of the
\* render Submit was invoked in.
ClosureItems(k) == subs[k].items

\* The stock-reduction loop from line j on: the next decrement is sent, or
\* the loop is over and the try block ends.
ContinueFrom(k, j) ==
    LET s == subs[k]
        i == NextDecrement(ClosureItems(k), j)
    IN  IF i # 0
        THEN /\ subs' = [subs EXCEPT ![k].pc = "updateInventoryQuantity",
                                     ![k].idx = i,
                                     ![k].issued = Append(s.issued,
                                         UpdateInventoryQuantityCall(
                                             ClosureItems(k)[i]))]
             /\ toasts' = <<>>
             /\ UNCHANGED isOpen
        ELSE Succeed(k)

\* The store after "create one record, returning the created record
\* including its generated identity": the identity is the record's place.
InsertedInvoice(invs, data) == Append(invs, [id |-> Len(invs) + 1] @@ data)

\* The store after "update one record by identity".
UpdatedInvoice(invs, id, data) == [invs EXCEPT ![id] = [id |-> id] @@ data]

\* The store after "create many records" (the batch insert of line items).
InsertedRows(table, rows) == table \o rows

\* The store after "decrement-by-amount a numeric field on one record".
ReducedStock(st, inventoryId, quantityToReduce) ==
    [st EXCEPT ![inventoryId] = st[inventoryId] - quantityToReduce]

\* createInvoice.mutateAsync resolves: the store holds the new invoice and
\* returns its identity; handleSubmit sends the line items.
CreateInvoiceOk ==
    \E k \in 1..Len(subs) :
        /\ UNCHANGED searchVars
        /\ UNCHANGED cell
        /\ subs[k].pc = "createInvoice"
        /\ LET id == Len(invoices) + 1
               rows == InvoiceItemRows(id, ClosureItems(k))
           IN  /\ invoices' = InsertedInvoice(invoices, subs[k].data)
               /\ subs' = [subs EXCEPT ![k].pc = "createInvoiceItems",
                                       ![k].invoiceId = id,
                                       ![k].issued = Append(subs[k].issued,
                                           CreateInvoiceItemsCall(rows))]
        /\ toasts' = <<>>
        /\ UNCHANGED <<isOpen, invoice, formData, items, inventory, now,
                       edits, stock, invoice_items>>

\* createInvoiceItems.mutateAsync resolves: the store holds the rows;
\* handleSubmit enters the stock-reduction loop.
CreateInvoiceItemsOk ==
    \E k \in 1..Len(subs) :
        /\ UNCHANGED searchVars
        /\ UNCHANGED cell
        /\ subs[k].pc = "createInvoiceItems"
        /\ invoice_items' = InsertedRows(invoice_items,
               InvoiceItemRows(subs[k].invoiceId, ClosureItems(k)))
        /\ ContinueFrom(k, 1)
        /\ UNCHANGED <<invoice, formData, items, inventory, now, edits,
                       stock, invoices>>

\* updateInventoryQuantity.mutateAsync resolves: the store's quantity is
\* reduced; the loop goes on.
UpdateInventoryQuantityOk ==
    \E k \in 1..Len(subs) :
        /\ UNCHANGED searchVars
        /\ UNCHANGED cell
        /\ subs[k].pc = "updateInventoryQuantity"
        /\ LET item == ClosureItems(k)[subs[k].idx]
           IN  stock' = ReducedStock(stock, item.inventory_id, item.quantity)
        /\ ContinueFrom(k, subs[k].idx + 1)
        /\ UNCHANGED <<invoice, formData, items, inventory, now, edits,
                       invoices, invoice_items>>

\* updateInvoice.mutateAsync resolves: the store holds the updated record.
UpdateInvoiceOk ==
    \E k \in 1..Len(subs) :
        /\ UNCHANGED searchVars
        /\ UNCHANGED cell
        /\ subs[k].pc = "updateInvoice"
        /\ invoices' = UpdatedInvoice(invoices, subs[k].invoice, subs[k].data)
        /\ Succeed(k)
        /\ UNCHANGED <<invoice, formData, items, inventory, now, edits,
                       stock, invoice_items>>

\* Mutant of WriteFails: the catch block puts the stock back.
WriteFailsRestoringStock ==
    \E k \in 1..Len(subs) :
        /\ UNCHANGED searchVars
        /\ UNCHANGED cell
        /\ subs[k].pc \in InFlight
        /\ subs' = [subs EXCEPT ![k].pc = "failed"]
        /\ toasts' = <<ErrorToast("Failed to save invoice")>>
        /\ stock' = InitStock
        /\ UNCHANGED <<isOpen, invoice, formData, items, inventory, now,
                       edits, invoices, invoice_items>>

\* The awaited write rejects: the catch block.
WriteFails ==
    \E k \in 1..Len(subs) :
        /\ UNCHANGED searchVars
        /\ UNCHANGED cell
        /\ subs[k].pc \in InFlight
        /\ subs' = [subs EXCEPT ![k].pc = "failed"]
        /\ toasts' = <<ErrorToast("Failed to save invoice")>>
        /\ UNCHANGED <<isOpen, invoice, formData, items, inventory, now,
                       edits, stock, invoices, invoice_items>>

\* ------------------------------------------------------------ specification
Init ==
    /\ isOpen = FALSE
    /\ invoice = 0
    /\ formData = BlankForm
    /\ items = <<BlankItem(1)>>
    /\ clientSearch = ""
    /\ inventorySearches = <<>>
    /\ inventory = InitStock
    /\ now = 2
    /\ edits = 0
    /\ toasts = <<>>
    /\ stock = InitStock
    /\ invoices = <<>>
    /\ invoice_items = <<>>
    /\ subs = <<>>
    /\ cell = NoCell

Next ==
    \/ Open
    \/ Cancel
    \/ SelectClient
    \/ EditQuantity
    \/ EditUnitPrice
    \/ EditDescription
    \/ TypeInventorySearch
    \/ SelectInventory
    \/ ChangeItem
    \/ addItem
    \/ removeItem
    \/ Tick
    \/ RefetchInventory
    \/ handleSubmit
    \/ CreateInvoiceOk
    \/ CreateInvoiceItemsOk
    \/ UpdateInventoryQuantityOk
    \/ UpdateInvoiceOk
    \/ WriteFails

Spec == Init /\ [][Next]_vars

\* An invoice record that did not come from this editor and holds no
\* client reference.
ClientlessInvoice ==
    [id |-> 1, client_id |-> "", notes |-> "", status |-> "draft",
     subtotal |-> 0, tax_amount |-> 0, total_amount |-> 0]

\* The editor over a store that already holds such a record.
ClientlessInit ==
    /\ isOpen = FALSE
    /\ invoice = 0
    /\ formData = BlankForm
    /\ items = <<BlankItem(1)>>
    /\ clientSearch = ""
    /\ inventorySearches = <<>>
    /\ inventory = InitStock
    /\ now = 2
    /\ edits = 0
    /\ toasts = <<>>
    /\ stock = InitStock
    /\ invoices = <<ClientlessInvoice>>
    /\ invoice_items = <<>>
    /\ subs = <<>>
    /\ cell = NoCell

ClientlessSpec == ClientlessInit /\ [][Next]_vars

\* The store after another session of the application sold the last
\* Rebar, while the editor still holds the inventory data it fetched
\* before.
SoldElsewhereStock == [InitStock EXCEPT !["b"] = 0]

StaleViewInit ==
    /\ isOpen = FALSE
    /\ invoice = 0
    /\ formData = BlankForm
    /\ items = <<BlankItem(1)>>
    /\ clientSearch = ""
    /\ inventorySearches = <<>>
    /\ inventory = InitStock
    /\ now = 2
    /\ edits = 0
    /\ toasts = <<>>
    /\ stock = SoldElsewhereStock
    /\ invoices = <<>>
    /\ invoice_items = <<>>
    /\ subs = <<>>
    /\ cell = NoCell

StaleViewSpec == StaleViewInit /\ [][Next]_vars

\* The editor is opened while it has submitted nothing yet, so that every
\* submission of a behaviour belongs to one editor session, the last one
\* opened.  No invoice exists by then, so the editor is never opened on
\* one and no update is ever sent.
OpenBeforeAnySubmit == subs = <<>> /\ Open

OneSessionNext ==
    \/ OpenBeforeAnySubmit
    \/ Cancel
    \/ SelectClient
    \/ EditQuantity
    \/ EditUnitPrice
    \/ EditDescription
    \/ TypeInventorySearch
    \/ SelectInventory
    \/ ChangeItem
    \/ addItem
    \/ removeItem
    \/ Tick
    \/ RefetchInventory
    \/ handleSubmit
    \/ CreateInvoiceOk
    \/ CreateInvoiceItemsOk
    \/ UpdateInventoryQuantityOk
    \/ WriteFails

OneSessionSpec == Init /\ [][OneSessionNext]_vars

\* ---------------------------------------------------------- record browser
\* A column name is the sequence of its characters.
\* tableConfigs: the columns of the four tables.
InvoicesColumns ==
    {<<"i", "d">>,
     <<"i", "n", "v", "o", "i", "c", "e", "_", "n", "u", "m", "b", "e", "r">>,
     <<"c", "l", "i", "e", "n", "t", "_", "n", "a", "m", "e">>,
     <<"t", "o", "t", "a", "l", "_", "a", "m", "o", "u", "n", "t">>,
     <<"s", "t", "a", "t", "u", "s">>,
     <<"i", "s", "s", "u", "e", "_", "d", "a", "t", "e">>,
     <<"d", "u", "e", "_", "d", "a", "t", "e">>}

ClientsColumns ==
    {<<"i", "d">>,
     <<"c", "o", "m", "p", "a", "n", "y", "_", "n", "a", "m", "e">>,
     <<"c", "o", "n", "t", "a", "c", "t", "_", "n", "a", "m", "e">>,
     <<"e", "m", "a", "i", "l">>,
     <<"p", "h", "o", "n", "e">>,
     <<"a", "d", "d", "r", "e", "s", "s">>}

ProfilesColumns ==
    {<<"i", "d">>,
     <<"f", "i", "r", "s", "t", "_", "n", "a", "m", "e">>,
     <<"l", "a", "s", "t", "_", "n", "a", "m", "e">>,
     <<"c", "r", "e", "a", "t", "e", "d", "_", "a", "t">>}

InvoiceItemsColumns ==
    {<<"i", "d">>,
     <<"i", "n", "v", "o", "i", "c", "e", "_", "i", "d">>,
     <<"d", "e", "s", "c", "r", "i", "p", "t", "i", "o", "n">>,
     <<"q", "u", "a", "n", "t", "i", "t", "y">>,
     <<"u", "n", "i", "t", "_", "p", "r", "i", "c", "e">>,
     <<"l", "i", "n", "e", "_", "t", "o", "t", "a", "l">>}

\* Column names of the store that no table is configured to show.
OtherColumns ==
    {<<"c", "a", "t", "e", "g", "o", "r", "y">>,
     <<"n", "o", "t", "e", "s">>,
     <<"u", "p", "d", "a", "t", "e", "d", "_", "a", "t">>}

Columns ==
    InvoicesColumns \cup ClientsColumns \cup ProfilesColumns
        \cup InvoiceItemsColumns \cup OtherColumns

\* The values of a row; "null" stands for null and undefined.
CellValues ==
    {"null", "paid", "pending", "overdue", "draft", "void", "1500",
     "2024-01-05T10:00:00Z"}

\* String.prototype.includes on sequences of characters.
Includes(str, pat) ==
    \E i \in 1..(Len(str) - Len(pat) + 1) :
        SubSeq(str, i, i + Len(pat) - 1) = pat

\* formatValue: the formatter applied, and the value it is applied to.
formatValue(value, column) ==
    IF value = "null" THEN [as |-> "text", of |-> "-"]
    ELSE IF Includes(column, <<"a", "m", "o", "u", "n", "t">>)
            \/ Includes(column, <<"p", "r", "i", "c", "e">>)
            \/ Includes(column, <<"t", "o", "t", "a", "l">>)
    THEN [as |-> "currency en-US USD", of |-> value]
    ELSE IF Includes(column, <<"d", "a", "t", "e">>)
            \/ Includes(column, <<"a", "t">>)
    THEN [as |-> "date-time en-US", of |-> value]
    ELSE [as |-> "text", of |-> value]

getStatusColor(status) ==
    CASE status = "paid" -> "bg-green-100 text-green-700"
      [] status = "pending" -> "bg-yellow-100 text-yellow-700"
      [] status = "overdue" -> "bg-red-100 text-red-700"
      [] status = "draft" -> "bg-gray-100 text-gray-700"
      [] OTHER -> "bg-gray-100 text-gray-700"

\* The content of the <td> of one column of one row.
RenderedCell(column, value) ==
    IF column = <<"s", "t", "a", "t", "u", "s">>
    THEN [tag |-> "Badge", className |-> getStatusColor(value),
          text |-> [as |-> "text", of |-> value]]
    ELSE [tag |-> "span",
          className |-> IF column = <<"i", "d">>
                        THEN "font-mono text-xs text-steel-500"
                        ELSE "text-gray-900",
          text |-> formatValue(value, column)]

\* The browser renders the cell of one column of one row.
RenderCell ==
    \E column \in Columns, value \in CellValues :
        /\ cell' = [column |-> column, value |-> value,
                    rendered |-> RenderedCell(column, value)]
        /\ UNCHANGED editorVars

BrowserSpec == Init /\ [][RenderCell]_vars

\* ------------------------------------------------------------------ claims
\* A new handleSubmit call got past validation in this step.
SubmitStarts == Len(subs') = Len(subs) + 1

\* Some line lacks a bound inventory item, or has a non-positive quantity
\* or a non-positive unit price.
SomeLineUnfit(its) ==
    \E i \in 1..Len(its) :
        \/ its[i].inventory_id = ""
        \/ its[i].quantity <= 0
        \/ its[i].unit_price <= 0

\* C1 as stated: whenever Submit is invoked while some line lacks a bound
\* inventory item or has quantity <= 0 or unit price <= 0, no remote call
\* is issued: no write is started and the store is untouched.
C1_SubmitBlockedOnUnfitLine ==
    [][(handleSubmit /\ SomeLineUnfit(items))
          => (UNCHANGED subs /\ UNCHANGED remoteVars)]_vars

\* C1 amended: whenever Submit is invoked for a new invoice (no invoice
\* was supplied to the editor) while some line lacks a bound inventory
\* item or has quantity <= 0 or unit price <= 0, no remote call is issued.
C1_NewInvoiceBlockedOnUnfitLine ==
    [][(handleSubmit /\ invoice = 0 /\ SomeLineUnfit(items))
          => (UNCHANGED subs /\ UNCHANGED remoteVars)]_vars

\* C1 witness: Submit of a new invoice was just refused with the client
\* chosen, on each kind of unfit line, and nothing was ever written.
C1_Witness ==
    /\ isOpen /\ invoice = 0 /\ formData.client_id # ""
    /\ toasts = <<ErrorToast("Please select inventory items for all line items")>>
    /\ Len(items) = 1
    /\ items[1].inventory_id # "" /\ items[1].description # ""
    /\ items[1].quantity > 0 /\ items[1].unit_price <= 0
    /\ subs = <<>> /\ invoices = <<>> /\ invoice_items = <<>>
    /\ stock = InitStock

\* The decrements a new-invoice submission owes, in line order.
RECURSIVE C2_Decrements(_)
C2_Decrements(its) ==
    IF its = <<>> THEN <<>>
    ELSE (IF its[1].inventory_id # "" /\ its[1].quantity > 0
          THEN <<[op |-> "updateInventoryQuantity",
                  inventoryId |-> its[1].inventory_id,
                  quantityToReduce |-> its[1].quantity]>>
          ELSE <<>>) \o C2_Decrements(Tail(its))

\* The writes of a new-invoice submission s issued so far are a prefix of:
\* create invoice, one insert of all lines under the identity the creation
\* returned, the owed decrements.
C2_InOrder(s) ==
    LET n == Len(s.issued)
        dec == C2_Decrements(s.items)
    IN  /\ n >= 1
        /\ s.issued[1].op = "createInvoice"
        /\ n >= 2 =>
            /\ s.invoiceId \in 1..Len(invoices)
            /\ invoices[s.invoiceId].id = s.invoiceId
            /\ s.issued[2].op = "createInvoiceItems"
            /\ Len(s.issued[2].rows) = Len(s.items)
            /\ \A i \in 1..Len(s.items) :
                  s.issued[2].rows[i].invoice_id = s.invoiceId
        /\ n - 2 <= Len(dec)
        /\ \A j \in 3..n : s.issued[j] = dec[j - 2]
        /\ s.pc = "done" => n = 2 + Len(dec)

C2_AllInOrder ==
    \A k \in 1..Len(subs) : subs[k].invoice = 0 => C2_InOrder(subs[k])

\* The store took, in this step, the write that submission k was awaiting.
C2_AwaitedWriteApplied(k) ==
    LET s == subs[k]
        w == s.issued[Len(s.issued)]
    IN  /\ s.pc \in InFlight
        /\ s.pc = w.op
        /\ w.op = "createInvoice" =>
              /\ Len(invoices') = Len(invoices) + 1
              /\ subs'[k].invoiceId = Len(invoices')
        /\ w.op = "createInvoiceItems" =>
              invoice_items' = invoice_items \o w.rows
        /\ w.op = "updateInventoryQuantity" =>
              stock' = [stock EXCEPT ![w.inventoryId] =
                            stock[w.inventoryId] - w.quantityToReduce]

\* C2: a new-invoice submission issues create invoice, then one batch
\* insert of all lines carrying the returned identity, then one decrement
\* per bound line with positive quantity, in line order, by the line's
\* quantity; each further write is issued only in the step in which the
\* previous one succeeded.
C2_NewInvoiceWriteOrder ==
    [][/\ C2_AllInOrder'
       /\ \A k \in 1..Len(subs) :
              (subs[k].invoice = 0
                   /\ Len(subs'[k].issued) # Len(subs[k].issued))
                => /\ Len(subs'[k].issued) = Len(subs[k].issued) + 1
                   /\ C2_AwaitedWriteApplied(k)]_vars

\* C2 witness: a new invoice with two lines went through all four writes.
C2_Witness ==
    \E k \in 1..Len(subs) :
        /\ subs[k].invoice = 0 /\ subs[k].pc = "done"
        /\ Len(subs[k].items) = 2
        /\ Len(subs[k].issued) = 4
        /\ subs[k].issued[3].inventoryId # subs[k].issued[4].inventoryId

\* The outcome C3 asks of a quantity edit with value v on line j, against
\* the available quantity avail.
C3_ClampedTo(j, v, avail) ==
    LET warning == [title |-> "Insufficient Inventory", units |-> avail,
                    name |-> InvName[items[j].inventory_id],
                    variant |-> "destructive"]
        raised == \E t \in 1..Len(toasts') : toasts'[t] = warning
    IN  /\ items'[j].quantity <= avail
        /\ IF v > avail
           THEN items'[j].quantity = avail /\ raised
           ELSE items'[j].quantity = v /\ ~raised

\* C3 as stated: a quantity edit on a bound line is clamped to the item's
\* available quantity at selection time, with a warning naming the item
\* and the cap; a request within it is accepted with no warning.
C3_ClampedToSelectionTime ==
    [][\A i \in 1..Len(items), v \in QtyInputs :
          handleItemChange(items[i].id, "quantity", v)
            => \A j \in 1..Len(items) :
                  (items[j].id = items[i].id /\ items[j].inventory_id # "")
                    => C3_ClampedTo(j, v, items[j].available_at_selection)]_vars

\* C3 amended: a quantity edit on a bound line is clamped to the item's
\* available quantity in the editor's inventory data at the time of the
\* edit: the result is <= it; a request above it sets the quantity to it
\* and raises a warning naming the item and that cap; a request within it
\* is accepted as given and raises no warning for that item.
C3_ClampedToCurrentInventory ==
    [][\A i \in 1..Len(items), v \in QtyInputs :
          handleItemChange(items[i].id, "quantity", v)
            => \A j \in 1..Len(items) :
                  (items[j].id = items[i].id /\ items[j].inventory_id # "")
                    => C3_ClampedTo(j, v, inventory[items[j].inventory_id])]_vars

\* C3 witness: the scenario of the spec.  Steel Beam (5 available, 100
\* each) was selected, quantity 10 was asked, the line holds 5 at 500 and
\* the warning names Steel Beam and 5.
C3_Witness ==
    /\ Len(items) = 1
    /\ items[1].inventory_id = "a"
    /\ items[1].quantity = 5 /\ items[1].line_total = 500
    /\ toasts = <<[title |-> "Insufficient Inventory", units |-> 5,
                   name |-> "Steel Beam", variant |-> "destructive"]>>

\* C4: in every reachable state every line has
\* line_total = quantity x unit_price.
C4_LineTotal ==
    \A i \in 1..Len(items) :
        items[i].line_total = items[i].quantity * items[i].unit_price

\* C4 witness: a line that was selected, repriced, requantified and then
\* unbound by Change Item still sits beside a bound line.
C4_Witness ==
    /\ edits >= 4
    /\ \E i \in 1..Len(items) :
          /\ items[i].inventory_id = "" /\ items[i].quantity = 3
          /\ items[i].available_at_selection > 0
          /\ items[i].line_total = 0

\* C5: every invoice record Submit writes has subtotal = the sum of the
\* line totals of the form's lines at that moment, total_amount = subtotal
\* and tax_amount = 0.
C5_WrittenTotals ==
    [][SubmitStarts =>
          LET w == subs'[Len(subs')].issued[1]
          IN  /\ w.op \in {"createInvoice", "updateInvoice"}
              /\ w.data.subtotal = SumLineTotals(items)
              /\ w.data.total_amount = w.data.subtotal
              /\ w.data.tax_amount = 0]_vars

\* C5 witness: an invoice with two lines of totals 100 and 250 was written
\* with subtotal and total 350.
C5_Witness ==
    \E id \in 1..Len(invoices), k \in 1..Len(subs) :
        /\ subs[k].invoiceId = id /\ subs[k].invoice = 0
        /\ Len(subs[k].items) = 2
        /\ subs[k].items[1].line_total = 100
        /\ subs[k].items[2].line_total = 250
        /\ invoices[id].subtotal = 350 /\ invoices[id].total_amount = 350
        /\ invoices[id].tax_amount = 0

\* C6 as stated: the editor always holds at least one line.
C6_AtLeastOneLine == Len(items) >= 1

\* C7 as stated: when the first write of a new-invoice submission is
\* issued, every line of the form has a bound inventory reference, a
\* non-empty description, unit_price > 0 and 0 < quantity <= the current
\* available quantity of its inventory item in the store.
C7_LinesWithinStockAtFirstWrite ==
    [][(SubmitStarts /\ invoice = 0)
          => \A i \in 1..Len(items) :
                /\ items[i].inventory_id # ""
                /\ items[i].description # ""
                /\ items[i].unit_price > 0
                /\ items[i].quantity > 0
                /\ items[i].inventory_id \in DOMAIN stock
                /\ items[i].quantity <= stock[items[i].inventory_id]]_vars

\* C8 as stated: no inventory item's available quantity drops below 0.
C8_StockNonNegative == \A inv \in InvIds : stock[inv] >= 0

\* C9 as stated: every line item a new-invoice submission sends to be
\* persisted carries the parent invoice reference, the reference to the
\* inventory item of its line, and the line's description, quantity, unit
\* price and line total as they stood at submit.
C9_RowsCarryLine ==
    \A k \in 1..Len(subs) : \A j \in 1..Len(subs[k].issued) :
        subs[k].issued[j].op = "createInvoiceItems" =>
            /\ Len(subs[k].issued[j].rows) = Len(subs[k].items)
            /\ \A i \in 1..Len(subs[k].items) :
                  LET row == subs[k].issued[j].rows[i]
                      line == subs[k].items[i]
                  IN  /\ row.invoice_id = subs[k].invoiceId
                      /\ row.description = line.description
                      /\ row.quantity = line.quantity
                      /\ row.unit_price = line.unit_price
                      /\ row.line_total = line.line_total
                      /\ "inventory_id" \in DOMAIN row
                      /\ row.inventory_id = line.inventory_id

\* A submission for an existing invoice has issued the update of that
\* invoice and nothing else.
C10_OnlyTheUpdate(s) ==
    s.issued = <<[op |-> "updateInvoice", id |-> s.invoice, data |-> s.data]>>

\* C10: a submission for an existing invoice issues exactly one write, the
\* update of that invoice; none of its steps creates or changes a line
\* item or changes an inventory quantity.
C10_EditUpdatesInvoiceOnly ==
    [][\A k \in 1..Len(subs') :
          subs'[k].invoice # 0 =>
              /\ C10_OnlyTheUpdate(subs'[k])
              /\ (k > Len(subs) \/ subs'[k] # subs[k])
                    => UNCHANGED <<stock, invoice_items>>]_vars

\* C10 witness: the update of an existing invoice succeeded, after one
\* write.
C10_Witness ==
    \E k \in 1..Len(subs) :
        /\ subs[k].invoice # 0 /\ subs[k].pc = "done"
        /\ Len(subs[k].issued) = 1
        /\ invoices[subs[k].invoice] = [id |-> subs[k].invoice] @@ subs[k].data

\* The number of decrements of submission s the store has applied: all the
\* issued ones, but for the one still awaited or the one that failed.
C11_AppliedCount(s) ==
    LET n == Len(s.issued)
    IN  IF s.pc = "done" THEN n - 2
        ELSE IF n >= 3 THEN n - 3
        ELSE 0

\* The quantity the first r decrements of the calls took from item inv.
RECURSIVE C11_Taken(_, _, _)
C11_Taken(calls, r, inv) ==
    IF r = 0 THEN 0
    ELSE (IF calls[r].inventoryId = inv THEN calls[r].quantityToReduce ELSE 0)
         + C11_Taken(calls, r - 1, inv)

\* The quantity the applied decrements of submissions 1..k took from inv.
RECURSIVE C11_TakenBySubs(_, _)
C11_TakenBySubs(k, inv) ==
    IF k = 0 THEN 0
    ELSE (IF subs[k].invoice = 0
          THEN C11_Taken(SubSeq(subs[k].issued, 3, Len(subs[k].issued)),
                         C11_AppliedCount(subs[k]), inv)
          ELSE 0)
         + C11_TakenBySubs(k - 1, inv)

\* The rows of the store under one invoice identity.
C11_RowsOf(id) == SelectSeq(invoice_items, LAMBDA r : r.invoice_id = id)

\* The store holds exactly what the succeeded writes of the new-invoice
\* submissions put there: the invoice once its creation succeeded, the
\* rows once their insert succeeded and none before, and a stock reduced
\* by the applied decrements and by nothing else; every write issued is a
\* create, an insert, a decrement or an update.
C11_StoreHoldsSucceededWrites ==
    /\ \A inv \in InvIds :
          stock[inv] = InitStock[inv] - C11_TakenBySubs(Len(subs), inv)
    /\ \A k \in 1..Len(subs) :
          LET s == subs[k]
              n == Len(s.issued)
          IN  /\ \A j \in 1..n : s.issued[j].op \in InFlight
              /\ s.invoice = 0 =>
                    /\ n >= 2 => s.invoiceId \in 1..Len(invoices)
                    /\ n = 1 => s.invoiceId = 0
                    /\ C11_RowsOf(s.invoiceId) =
                          IF n >= 3 \/ s.pc = "done"
                          THEN s.issued[2].rows ELSE <<>>
                    /\ s.pc = "failed" =>
                          \A j \in 3..n :
                              s.issued[j] = C2_Decrements(s.items)[j - 2]

\* A submission that failed issues nothing further, and no step drops an
\* invoice or a row from the store.
C11_FailedIsFinal ==
    /\ \A k \in 1..Len(subs) : subs[k].pc = "failed" => subs'[k] = subs[k]
    /\ Len(invoices') >= Len(invoices)
    /\ SubSeq(invoice_items', 1, Len(invoice_items)) = invoice_items

\* C11: no compensation follows a failed write of a new-invoice
\* submission.  If the insert of the lines fails the created invoice stays
\* in the store with no rows and no decrement is issued; if the k-th
\* decrement fails the invoice, the rows and the first k-1 decrements stay
\* applied and no further decrement is issued; no delete or restore write
\* is ever issued.
C11_NoCompensation ==
    []C11_StoreHoldsSucceededWrites /\ [][C11_FailedIsFinal]_vars

\* C11 witness: one submission failed at the insert of its lines, a later
\* one of two lines failed at its second decrement, and the stock shows
\* the first decrement only.
C11_Witness ==
    \E k1, k2 \in 1..Len(subs) :
        /\ subs[k1].invoice = 0 /\ subs[k1].pc = "failed"
        /\ Len(subs[k1].issued) = 2
        /\ subs[k2].invoice = 0 /\ subs[k2].pc = "failed"
        /\ Len(subs[k2].issued) = 4
        /\ Len(invoices) = 2
        /\ Len(invoice_items) = 2
        /\ stock # InitStock

\* Some notification of the list is a success notification.
C12_HasSuccess(ts) == \E t \in 1..Len(ts) : ts[t].title = "Success"

\* The writes a submission owes have all been issued.
C12_AllIssued(s) ==
    Len(s.issued) = IF s.invoice # 0 THEN 1
                    ELSE 2 + Len(C2_Decrements(s.items))

\* One step of the editor session, as C12 has it.
C12_SessionStep ==
    /\ SubmitStarts =>
          /\ isOpen /\ formData.client_id # ""
          /\ invoice = 0 => validateItems(items)
          /\ UNCHANGED <<isOpen, items, formData>>
    /\ (handleSubmit /\ ~SubmitStarts) =>
          /\ isOpen'
          /\ UNCHANGED <<items, formData, subs, remoteVars>>
          /\ toasts' # <<>> /\ ~C12_HasSuccess(toasts')
    /\ \A k \in 1..Len(subs) :
          /\ (subs[k].pc \in InFlight /\ subs'[k].pc = "done") =>
                /\ C12_AllIssued(subs'[k])
                /\ Len(toasts') = 1 /\ C12_HasSuccess(toasts')
                /\ ~isOpen'
          /\ (subs[k].pc \in InFlight /\ subs'[k].pc = "failed") =>
                /\ toasts' = <<ErrorToast("Failed to save invoice")>>
                /\ UNCHANGED <<isOpen, items, formData, remoteVars>>
                /\ subs'[k].issued = subs[k].issued
          /\ subs[k].pc \in {"done", "failed"} => subs'[k] = subs[k]
    /\ (isOpen /\ ~isOpen') =>
          \/ Cancel
          \/ \E k \in 1..Len(subs) :
                subs[k].pc \in InFlight /\ subs'[k].pc = "done"
    /\ (toasts' # toasts /\ C12_HasSuccess(toasts')) =>
          \E k \in 1..Len(subs) :
              subs[k].pc \in InFlight /\ subs'[k].pc = "done"

\* C12: a Submit starts its writes only from the open editor with
\* validation passed; when all its writes have succeeded it raises one
\* success notification and closes the editor, once; a Submit that fails
\* validation leaves the editor open with lines and fields unchanged; a
\* failed write leaves them unchanged too, raises exactly the one generic
\* failure notification and no success notification, and the submission
\* issues no write again.
C12_SessionStateMachine == [][C12_SessionStep]_vars

\* C12 witness: after a submission that failed and left the editor open,
\* the next one succeeded and closed it with the success notification.
C12_Witness ==
    /\ ~isOpen
    /\ toasts = <<SuccessToast("Invoice created successfully")>>
    /\ \E k1, k2 \in 1..Len(subs) :
          /\ k1 < k2
          /\ subs[k1].pc = "failed" /\ subs[k2].pc = "done"
          /\ subs[k1].items = subs[k2].items

\* C13: a Submit with no client selected, for a new invoice or for an
\* existing one, raises the blocking notification and nothing else: no
\* write is started, the store is untouched and the editor stays open.
C13_NoClientBlocksSubmit ==
    [][(handleSubmit /\ formData.client_id = "")
          => /\ toasts' = <<ErrorToast("Please select a client")>>
             /\ UNCHANGED subs /\ UNCHANGED remoteVars
             /\ isOpen']_vars

\* C13 witness: the editor is open on an existing invoice that holds no
\* client; Submit was just refused and nothing was ever written.
C13_Witness ==
    /\ isOpen /\ invoice # 0 /\ formData.client_id = ""
    /\ toasts = <<ErrorToast("Please select a client")>>
    /\ subs = <<>> /\ stock = InitStock /\ invoice_items = <<>>
    /\ invoices = <<ClientlessInvoice>>

\* What C14 asks of line j after item inv was selected for it.
C14_Bound(j, inv) ==
    LET q == IF items[j].quantity < inventory[inv]
             THEN items[j].quantity ELSE inventory[inv]
    IN  /\ items'[j].inventory_id = inv
        /\ items'[j].description = InvName[inv]
        /\ items'[j].unit_price = InvPrice[inv]
        /\ items'[j].quantity = q
        /\ items'[j].line_total = q * InvPrice[inv]
        /\ (items[j].quantity = 1 /\ inventory[inv] = 5 /\ InvPrice[inv] = 100)
              => /\ items'[j].quantity = 1
                 /\ items'[j].unit_price = 100
                 /\ items'[j].line_total = 100

\* C14: selecting an inventory item for a line binds the line to it,
\* copies its name into the description and its unit price into the line,
\* sets the quantity to min(the line's quantity, the item's available
\* quantity) and the line total to that quantity x the unit price; a line
\* of quantity 1 bound to an item with 5 available at 100 each becomes
\* quantity 1, price 100, total 100.
C14_SelectBindsAndClamps ==
    [][\A i \in 1..Len(items), inv \in InvIds :
          handleInventorySelect(items[i].id, inv) => C14_Bound(i, inv)]_vars

\* C14 witness: the scenario of the spec beside a second bound line.
\* Steel Beam (5 available, 100 each) sits on the first line at quantity
\* 1, price 100, total 100; Rebar (1 available, 250 each) sits on the
\* second at quantity 1, total 250.
C14_Witness ==
    /\ Len(items) = 2 /\ invoice = 0 /\ isOpen
    /\ items[1].inventory_id = "a" /\ items[1].description = "Steel Beam"
    /\ items[1].quantity = 1 /\ items[1].unit_price = 100
    /\ items[1].line_total = 100
    /\ items[2].inventory_id = "b" /\ items[2].description = "Rebar"
    /\ items[2].quantity = 1 /\ items[2].line_total = 250
    /\ formData.client_id = ""

\* C15 as stated: whenever the editor goes from closed to open with no
\* invoice, it shows no client, status draft, empty notes, exactly one
\* line with no inventory reference, empty description, quantity 1, unit
\* price 0 and line total 0, and no search text; opened with an invoice,
\* it shows the invoice's fields and exactly one placeholder line with no
\* inventory reference, quantity 1, and unit price and line total equal
\* to the invoice's subtotal.
C15_OpenResetsOrPrefills ==
    [][(~isOpen /\ isOpen') =>
          /\ Len(items') = 1
          /\ items'[1].inventory_id = "" /\ items'[1].quantity = 1
          /\ IF invoice' = 0
             THEN /\ formData'.client_id = "" /\ formData'.status = "draft"
                  /\ formData'.notes = ""
                  /\ items'[1].description = ""
                  /\ items'[1].unit_price = 0 /\ items'[1].line_total = 0
                  /\ clientSearch' = ""
                  /\ \A id \in DOMAIN inventorySearches' :
                        inventorySearches'[id] = ""
             ELSE /\ formData'.client_id = invoices[invoice'].client_id
                  /\ formData'.status = invoices[invoice'].status
                  /\ formData'.notes = invoices[invoice'].notes
                  /\ items'[1].unit_price = invoices[invoice'].subtotal
                  /\ items'[1].line_total = invoices[invoice'].subtotal]_vars

\* Every line is complete and within the quantity the editor's own
\* inventory data shows for its item.
C16_FitsOwnView(its) ==
    \A i \in 1..Len(its) :
        /\ its[i].inventory_id # "" /\ its[i].description # ""
        /\ its[i].quantity > 0 /\ its[i].unit_price > 0
        /\ its[i].quantity <= inventory[its[i].inventory_id]

\* Whether a Submit of a new invoice starts its writes depends on the
\* form and the editor's own inventory data alone.
C16_ValidatedAgainstOwnView ==
    (handleSubmit /\ invoice = 0)
        => (SubmitStarts <=> (formData.client_id # "" /\ C16_FitsOwnView(items)))

\* A decrement carries the item and the amount, and nothing to compare
\* the store against; a step that applies one applies it whatever the
\* store holds and whatever other submission is in flight.
C16_NoVersionCheck ==
    \A k \in 1..Len(subs') : \A j \in 1..Len(subs'[k].issued) :
        LET w == subs'[k].issued[j]
        IN  w.op = "updateInventoryQuantity" =>
                DOMAIN w = {"op", "inventoryId", "quantityToReduce"}

\* C16: submissions of new invoices are not coordinated.  Each is started
\* on the strength of the editor's own inventory data alone, also while
\* another is in flight, and no write carries a lock or a version; two
\* that bind the same item can interleave, both complete, and together
\* take more from the item than it held (the witness).
C16_Uncoordinated ==
    [][C16_ValidatedAgainstOwnView /\ C16_NoVersionCheck]_vars

\* C16 witness: two submissions bound to Rebar (1 available) overlapped,
\* the later one inserting its rows before the earlier one did; both are
\* done and 2 were taken from Rebar.
C16_Witness ==
    \E k1, k2 \in 1..Len(subs) :
        /\ k1 < k2
        /\ subs[k1].invoice = 0 /\ subs[k2].invoice = 0
        /\ subs[k1].pc = "done" /\ subs[k2].pc = "done"
        /\ subs[k1].items[1].inventory_id = "b"
        /\ subs[k2].items[1].inventory_id = "b"
        /\ Len(invoice_items) = 2
        /\ invoice_items[1].invoice_id = subs[k2].invoiceId
        /\ invoice_items[2].invoice_id = subs[k1].invoiceId
        /\ stock["b"] = InitStock["b"] - 2
        /\ stock["b"] < 0

\* Line i of the form is bound and asks for more than the editor's
\* inventory data shows for its item.
C17_OverStock(i) ==
    /\ items[i].inventory_id # ""
    /\ items[i].quantity > inventory[items[i].inventory_id]

\* The notification naming the item of line i and its available quantity.
C17_Naming(i) ==
    [title |-> "Insufficient Inventory",
     units |-> inventory[items[i].inventory_id],
     name |-> InvName[items[i].inventory_id], variant |-> "destructive"]

\* C17 as stated, in its weakest reading: when validation blocks the
\* Submit of a new invoice and some line asks for more than its bound
\* item has available, a notification naming such a line's item and its
\* available quantity is raised; when no line does, a generic error
\* notification is raised and none that names an item.
C17_NotificationByViolation ==
    [][(handleSubmit /\ invoice = 0 /\ formData.client_id # ""
            /\ ~SubmitStarts)
          => IF \E i \in 1..Len(items) : C17_OverStock(i)
             THEN \E i \in 1..Len(items), t \in 1..Len(toasts') :
                      C17_OverStock(i) /\ toasts'[t] = C17_Naming(i)
             ELSE /\ \E t \in 1..Len(toasts') : toasts'[t].title = "Error"
                  /\ \A t \in 1..Len(toasts') :
                         toasts'[t].title # "Insufficient Inventory"]_vars

\* The column name ends with the given characters.
C18_EndsWith(str, suffix) ==
    /\ Len(str) >= Len(suffix)
    /\ SubSeq(str, Len(str) - Len(suffix) + 1, Len(str)) = suffix

\* The colour C18 gives a status.
C18_Colour(status) ==
    CASE status = "paid" -> "green"
      [] status = "pending" -> "yellow"
      [] status = "overdue" -> "red"
      [] OTHER -> "gray"

\* The badge class of each colour.
C18_ClassOf ==
    [green |-> "bg-green-100 text-green-700",
     yellow |-> "bg-yellow-100 text-yellow-700",
     red |-> "bg-red-100 text-red-700",
     gray |-> "bg-gray-100 text-gray-700"]

C19_InFlight == {k \in 1..Len(subs) : subs[k].pc \in InFlight}

\* C19 as stated: at most one submission of an editor session is in
\* flight, from its first write to the success or failure of its last; so
\* one filled form never creates two invoices.
C19_OneSubmissionInFlight ==
    /\ Cardinality(C19_InFlight) <= 1
    /\ \A k1, k2 \in 1..Len(subs) :
          (k1 < k2 /\ subs[k1].items = subs[k2].items
             /\ subs[k1].data = subs[k2].data)
            => ~(subs[k1].invoiceId # 0 /\ subs[k2].invoiceId # 0)

\* The sum of the quantities of the rows whose line is bound to item inv.
RECURSIVE C20_PersistedFor(_, _, _, _)
C20_PersistedFor(its, rows, n, inv) ==
    IF n = 0 THEN 0
    ELSE (IF its[n].inventory_id = inv THEN rows[n].quantity ELSE 0)
         + C20_PersistedFor(its, rows, n - 1, inv)

\* The writes submission s has issued so far are those of its snapshot.
C20_FromSnapshot(s) ==
    LET n == Len(s.issued)
        snap == s.items
    IN  /\ s.issued[1].data.subtotal = SumLineTotals(snap)
        /\ n >= 2 =>
              /\ Len(s.issued[2].rows) = Len(snap)
              /\ \A i \in 1..Len(snap) :
                    /\ s.issued[2].rows[i].description = snap[i].description
                    /\ s.issued[2].rows[i].quantity = snap[i].quantity
                    /\ s.issued[2].rows[i].unit_price = snap[i].unit_price
                    /\ s.issued[2].rows[i].line_total = snap[i].line_total
        /\ \A j \in 3..n : s.issued[j] = C2_Decrements(snap)[j - 2]
        /\ s.pc = "done" =>
              \A inv \in InvIds :
                  C11_Taken(SubSeq(s.issued, 3, n), n - 2, inv)
                    = C20_PersistedFor(snap, s.issued[2].rows, Len(snap), inv)

\* One step, as C20 has it: a starting submission takes the validated
\* lines of the form as its snapshot; the snapshot of a running one never
\* changes; all writes issued are those of the snapshot.
C20_SnapshotStep ==
    \A k \in 1..Len(subs') :
        subs'[k].invoice = 0 =>
            /\ IF k > Len(subs)
               THEN subs'[k].items = items /\ validateItems(items)
               ELSE subs'[k].items = subs[k].items
            /\ C20_FromSnapshot(subs'[k])

\* C20: all writes of one new-invoice submission come from the lines as
\* they were validated when Submit was invoked, whatever is edited, added,
\* removed, refreshed or closed while they are in flight: the subtotal
\* written, the rows inserted and the decrements issued; once it is done,
\* each item was decremented by exactly the sum of the persisted
\* quantities of the lines bound to it.
C20_WritesFromSnapshot == [][C20_SnapshotStep]_vars

\* C20 witness: a submission is awaiting its decrement with its rows in
\* the store; since it started a line was added to the form, the
\* inventory data was refreshed to less than its line asks for, and the
\* editor was closed; the rows and the decrement are those of its
\* snapshot.
C20_Witness ==
    \E k \in 1..Len(subs) :
        LET s == subs[k]
        IN  /\ s.invoice = 0 /\ s.pc = "updateInventoryQuantity"
            /\ Len(s.items) = 1 /\ Len(items) = 2
            /\ items[1] = s.items[1]
            /\ s.items[1].quantity > inventory[s.items[1].inventory_id]
            /\ ~isOpen
            /\ s.issued[3].quantityToReduce = s.items[1].quantity
            /\ C11_RowsOf(s.invoiceId) = InvoiceItemRows(s.invoiceId, s.items)

\* ------------------------------------------------------------------ C21
\* Line i keeps its place and its identifier, the number of lines is
\* unchanged, and every other line keeps all its fields.
C21_OnlyLine(i) ==
    /\ Len(items') = Len(items)
    /\ items'[i].id = items[i].id
    /\ \A j \in 1..Len(items) : j # i => items'[j] = items[j]

\* A step of an operation addressed to line i leaves every line but i
\* as it was.
C21_LineStep ==
    \A i \in 1..Len(items) :
        /\ \A v \in QtyInputs :
               handleItemChange(items[i].id, "quantity", v)
                   => C21_OnlyLine(i)
        /\ \A v \in PriceInputs :
               handleItemChange(items[i].id, "unit_price", v)
                   => C21_OnlyLine(i)
        /\ \A v \in DescInputs :
               handleItemChange(items[i].id, "description", v)
                   => C21_OnlyLine(i)
        /\ \A inv \in InvIds :
               (~ShownSelected(items[i])
                    /\ handleInventorySelect(items[i].id, inv))
                   => C21_OnlyLine(i)
        /\ (ChangeItem /\ ShownSelected(items[i])
                /\ items'[i] = ChangedItem(items[i]))
               => C21_OnlyLine(i)

\* C21 as stated: a quantity edit, unit-price edit, description edit,
\* inventory selection or Change Item addressed to one line changes only
\* that line; the other lines' fields, the number of lines and their
\* order are unchanged, in every reachable state, lines added by addItem
\* included.
C21_LineOperationChangesOnlyItsLine == [][C21_LineStep]_vars

====
